---------------------------- MODULE Spec2Model ----------------------------
(***************************************************************************)
(* The step-wise Dijkstra solver of src/main.cc (class Solver, lines       *)
(* 196-345): a state machine advanced by next(), one call per key press.   *)
(* The graph handed to the constructor is chosen in Init from a bounded    *)
(* family; the order of m_unvisited is the iteration order of an           *)
(* std::unordered_map, which is unspecified, so every order is possible.   *)
(***************************************************************************)
EXTENDS Integers, Sequences, FiniteSets

(***************************************************************************)
(* Bounds of the model and constants of the program.                       *)
(***************************************************************************)
\* The most edges (over all neighbour lists together) a graph of Init has.
MaxEdges == 3

\* The longest m_unvisited that reset() is called on a solver to produce.
MaxUnvisited == 6

\* How many positions past end() a cursor is followed before the model
\* stops following it.
MaxOverrun == 2

\* Vertex identifiers a graph is built from.  -1 is a legal VertexId
\* (int64_t) and is also the value reset() stores for "no predecessor".
Ids == {-1, 1, 2, 3}

\* Edge weights a graph is built from: zero, a small one, and one that is
\* larger than m_inf.  All sums stay far inside the range of int.
Weights == {0, 1, 1000}

\* static constexpr int m_inf = 999;
m_inf == 999

\* The m_prev that reset() stores in every table entry.
NoPrev == -1

(***************************************************************************)
(* Helpers.                                                                *)
(***************************************************************************)
Range(s) == {s[i] : i \in 1..Len(s)}

\* Edges that may leave vertex v of a graph with key set K.  The programs
\* that build graphs (generate_random_vertices, vertices_from_xml, the
\* literal graphs of main) never add an edge from a vertex to itself.
EdgesFrom(K, v) == [m_other_id : K \ {v}, m_weight : Weights]

\* Neighbour lists of exactly n edges.
ListsOf(K, v, n) == [1..n -> EdgesFrom(K, v)]

\* All std::unordered_map<VertexId, Vertex> values over the vertices of todo
\* (a subset of K) with at most budget edges in total.
RECURSIVE GraphsOver(_, _, _)
GraphsOver(K, todo, budget) ==
    IF todo = {} THEN {<<>>}
    ELSE LET v == CHOOSE x \in todo : TRUE
         IN  UNION { UNION { { [w \in (DOMAIN g) \cup {v} |->
                                   IF w = v
                                   THEN [m_id |-> v, m_neighbours |-> l]
                                   ELSE g[w]]
                               : g \in GraphsOver(K, todo \ {v}, budget - n) }
                             : l \in ListsOf(K, v, n) }
                     : n \in 0..budget }

\* The key sets of the graphs of Init: up to three vertices, with and without
\* a vertex -1.  The solver compares identifiers only for equality, so every
\* other choice of positive identifiers behaves like one of these.
VertexSets == {{1}, {1, 2}, {1, 2, 3}, {-1}, {-1, 1}, {-1, 1, 2}}

\* The sources tried for a graph with key set K.  Renaming the positive
\* identifiers maps a run to a run (all graphs and all iteration orders over K
\* are tried), so a positive source is taken to be 1; -1 is tried as well.
Sources(K) == K \cap {-1, 1}

\* The orders in which ranges::for_each may go through a map with key set K.
IterationOrders(K) ==
    {s \in [1..Cardinality(K) -> K] : Range(s) = K}

VARIABLES
    m_vertices,    \* std::unordered_map<VertexId, Vertex>
    m_source,      \* VertexId
    m_unvisited,   \* std::list<VertexId>
    m_table,       \* std::unordered_map<VertexId, TableEntry>
    m_current,     \* VertexId; not initialised by the constructor
    m_neighbour,   \* std::vector<Edge>::const_iterator, as a 1-based position
    m_state,       \* enum class State
    map_order      \* the iteration order of m_vertices

vars == <<m_vertices, m_source, m_unvisited, m_table, m_current,
          m_neighbour, m_state, map_order>>

States == {"Idle", "NextVertex", "Visiting", "Terminated"}

Keys == DOMAIN m_vertices

\* vtx.m_neighbours of the current vertex.
Neighbours(id) == m_vertices[id].m_neighbours

\* vtx.m_neighbours.end(), as a position.
End(id) == Len(Neighbours(id)) + 1

\* reset() that gives the source the initial distance of every other vertex.
ResetTable_nosource ==
    [key \in Keys |-> [m_dist |-> m_inf, m_prev |-> NoPrev]]

\* reset() that writes the source as the predecessor of every vertex.
ResetTable_prevsource ==
    [key \in Keys |->
        [m_dist |-> IF key = m_source THEN 0 ELSE m_inf, m_prev |-> m_source]]

(***************************************************************************)
(* Solver::reset: m_state = Idle; for each (key, value) of m_vertices, in  *)
(* map order, push key to the back of m_unvisited and (re)write its entry. *)
(***************************************************************************)
ResetTable ==
    [key \in Keys |->
        [m_dist |-> IF key = m_source THEN 0 ELSE m_inf, m_prev |-> NoPrev]]

(***************************************************************************)
(* Solver::Solver(vertices, source): copies the graph, stores the source   *)
(* and calls reset() on the empty m_unvisited and m_table.                 *)
(***************************************************************************)
Constructed(sets) ==
    /\ \E K \in sets :
          /\ m_vertices \in GraphsOver(K, K, MaxEdges)
          /\ m_source \in Sources(K)
          /\ map_order \in IterationOrders(K)
    /\ m_unvisited = map_order
    /\ m_table = ResetTable
    /\ m_current \in Ids      \* no initializer: an indeterminate value
    /\ m_neighbour = 0
    /\ m_state = "Idle"

Init == Constructed(VertexSets)

\* Construction on a graph none of whose vertices has the identifier -1.
InitPositiveIds == Constructed({K \in VertexSets : -1 \notin K})

(***************************************************************************)
(* Graphs outside the family of Init.  Edge::m_weight is an int and        *)
(* Edge::m_other_id a VertexId; the constructor takes any map.             *)
(***************************************************************************)
\* Weights of either sign.
SignedWeights == {-1, 0, 1}

\* All maps over the vertices of todo with at most budget edges in total,
\* the edges of vertex v leading to the identifiers T[v] with weights in W.
RECURSIVE GraphsWith(_, _, _, _)
GraphsWith(T, W, todo, budget) ==
    IF todo = {} THEN {<<>>}
    ELSE LET v == CHOOSE x \in todo : TRUE
         IN  UNION { UNION { { [w \in (DOMAIN g) \cup {v} |->
                                   IF w = v
                                   THEN [m_id |-> v, m_neighbours |-> l]
                                   ELSE g[w]]
                               : g \in GraphsWith(T, W, todo \ {v}, budget - n) }
                             : l \in [1..n -> [m_other_id : T[v], m_weight : W]] }
                     : n \in 0..budget }

\* Solver::Solver(vertices, source) on a graph of GraphsWith.
ConstructedWith(K, T, W) ==
    /\ m_vertices \in GraphsWith(T, W, K, MaxEdges)
    /\ m_source \in Sources(K)
    /\ map_order \in IterationOrders(K)
    /\ m_unvisited = map_order
    /\ m_table = ResetTable
    /\ m_current \in Ids
    /\ m_neighbour = 0
    /\ m_state = "Idle"

\* Construction on a graph whose weights may be negative.
InitSigned ==
    \E K \in {K \in VertexSets : -1 \notin K} :
        ConstructedWith(K, [v \in K |-> K \ {v}], SignedWeights)

\* Construction on a graph whose edges may lead to an identifier that is
\* no key of the map (3 is none) and whose weights may be negative.
InitUnvalidated ==
    \E K \in {{1}, {1, 2}} :
        ConstructedWith(K, [v \in K |-> {1, 2, 3} \ {v}], SignedWeights)

\* next_unvisited that takes m_unvisited.front().
next_unvisited_front == m_unvisited[1]

\* next_unvisited that returns the last of several equal minima.
next_unvisited_last ==
    LET i == CHOOSE i \in 1..Len(m_unvisited) :
                /\ \A j \in 1..Len(m_unvisited) :
                      m_table[m_unvisited[j]].m_dist >= m_table[m_unvisited[i]].m_dist
                /\ \A j \in (i + 1)..Len(m_unvisited) :
                      m_table[m_unvisited[j]].m_dist > m_table[m_unvisited[i]].m_dist
    IN  m_unvisited[i]

\* next_unvisited with ranges::max_element.
next_unvisited_greatest ==
    LET i == CHOOSE i \in 1..Len(m_unvisited) :
                /\ \A j \in 1..Len(m_unvisited) :
                      m_table[m_unvisited[j]].m_dist <= m_table[m_unvisited[i]].m_dist
                /\ \A j \in 1..(i - 1) :
                      m_table[m_unvisited[j]].m_dist < m_table[m_unvisited[i]].m_dist
    IN  m_unvisited[i]

(***************************************************************************)
(* Solver::next_unvisited: ranges::min_element over m_unvisited with the   *)
(* comparator dist_a < dist_b returns the first element, in list order,    *)
(* that no other element is smaller than.                                  *)
(***************************************************************************)
next_unvisited ==
    LET i == CHOOSE i \in 1..Len(m_unvisited) :
                /\ \A j \in 1..Len(m_unvisited) :
                      m_table[m_unvisited[j]].m_dist >= m_table[m_unvisited[i]].m_dist
                /\ \A j \in 1..(i - 1) :
                      m_table[m_unvisited[j]].m_dist > m_table[m_unvisited[i]].m_dist
    IN  m_unvisited[i]

(***************************************************************************)
(* Solver::visit_neighbour: the table after relaxing the edge under the    *)
(* cursor.  A target that is not in m_unvisited is skipped.                *)
(***************************************************************************)
\* visit_neighbour without the test dist < other_dist.
visit_neighbour_unconditional ==
    LET current == m_vertices[m_current]
        v       == current.m_neighbours[m_neighbour]
        other   == v.m_other_id
    IN  IF other \notin Range(m_unvisited) THEN m_table
        ELSE [m_table EXCEPT ![other] =
                 [m_dist |-> m_table[current.m_id].m_dist + v.m_weight,
                  m_prev |-> current.m_id]]

\* visit_neighbour without the test for membership in m_unvisited.
visit_neighbour_revisit ==
    LET current == m_vertices[m_current]
        v       == current.m_neighbours[m_neighbour]
        other   == v.m_other_id
        dist    == m_table[current.m_id].m_dist + v.m_weight
    IN  IF dist < m_table[other].m_dist
        THEN [m_table EXCEPT ![other] =
                 [m_dist |-> dist, m_prev |-> current.m_id]]
        ELSE m_table

\* visit_neighbour with dist <= other_dist as the test.
visit_neighbour_orequal ==
    LET current == m_vertices[m_current]
        v       == current.m_neighbours[m_neighbour]
        other   == v.m_other_id
        dist    == m_table[current.m_id].m_dist + v.m_weight
    IN  IF other \notin Range(m_unvisited) THEN m_table
        ELSE IF dist <= m_table[other].m_dist
             THEN [m_table EXCEPT ![other] =
                      [m_dist |-> dist, m_prev |-> current.m_id]]
             ELSE m_table

\* visit_neighbour that stores the new distance and keeps the predecessor.
visit_neighbour_distonly ==
    LET current == m_vertices[m_current]
        v       == current.m_neighbours[m_neighbour]
        other   == v.m_other_id
        dist    == m_table[current.m_id].m_dist + v.m_weight
    IN  IF other \notin Range(m_unvisited) THEN m_table
        ELSE IF dist < m_table[other].m_dist
             THEN [m_table EXCEPT ![other].m_dist = dist]
             ELSE m_table

visit_neighbour ==
    LET current      == m_vertices[m_current]
        current_dist == m_table[current.m_id].m_dist
        v            == current.m_neighbours[m_neighbour]
        other        == v.m_other_id
        is_unvisited == other \in Range(m_unvisited)
        dist         == current_dist + v.m_weight
    IN  IF ~is_unvisited THEN m_table
        ELSE IF dist < m_table[other].m_dist
             THEN [m_table EXCEPT ![other] =
                      [m_dist |-> dist, m_prev |-> current.m_id]]
             ELSE m_table

\* pop_front() in place of remove(value).
ListRemove_front(list, value) == Tail(list)

\* remove(value) that removes nothing.
ListRemove_none(list, value) == list

\* std::list::remove(value): erases every element equal to value.
ListRemove(list, value) == SelectSeq(list, LAMBDA x : x # value)

(***************************************************************************)
(* Solver::next, one action per case of the switch.                        *)
(***************************************************************************)
\* A Terminated tick that restarts the run as reset() would.
case_Terminated_restart ==
    /\ m_state = "Terminated"
    /\ m_state' = "Idle"
    /\ m_unvisited' = m_unvisited \o map_order
    /\ m_table' = ResetTable
    /\ UNCHANGED <<m_vertices, m_source, m_current, m_neighbour, map_order>>

case_Terminated ==
    /\ m_state = "Terminated"
    /\ UNCHANGED vars

\* An Idle tick that stops one vertex early.
case_Idle_early ==
    /\ m_state = "Idle"
    /\ IF Len(m_unvisited) <= 1
       THEN /\ m_state' = "Terminated"
            /\ UNCHANGED m_current
       ELSE /\ m_current' = next_unvisited
            /\ m_state' = "NextVertex"
    /\ UNCHANGED <<m_vertices, m_source, m_unvisited, m_table, m_neighbour,
                   map_order>>

\* case Idle without the transition to Terminated.
case_Idle_unfinished ==
    /\ m_state = "Idle"
    /\ IF m_unvisited = <<>>
       THEN UNCHANGED <<m_state, m_current>>
       ELSE /\ m_current' = next_unvisited
            /\ m_state' = "NextVertex"
    /\ UNCHANGED <<m_vertices, m_source, m_unvisited, m_table, m_neighbour,
                   map_order>>

case_Idle ==
    /\ m_state = "Idle"
    /\ IF m_unvisited = <<>>
       THEN /\ m_state' = "Terminated"
            /\ UNCHANGED m_current
       ELSE /\ m_current' = next_unvisited
            /\ m_state' = "NextVertex"
    /\ UNCHANGED <<m_vertices, m_source, m_unvisited, m_table, m_neighbour,
                   map_order>>

\* case NextVertex without the test for an empty neighbour list.
case_NextVertex_always ==
    /\ m_state = "NextVertex"
    /\ m_neighbour' = 1
    /\ m_state' = "Visiting"
    /\ UNCHANGED <<m_vertices, m_source, m_unvisited, m_table, m_current,
                   map_order>>

case_NextVertex ==
    /\ m_state = "NextVertex"
    /\ m_neighbour' = 1
    /\ IF 1 = End(m_current)
       THEN /\ m_unvisited' = ListRemove(m_unvisited, m_current)
            /\ m_state' = "Idle"
       ELSE /\ m_state' = "Visiting"
            /\ UNCHANGED m_unvisited
    /\ UNCHANGED <<m_vertices, m_source, m_table, m_current, map_order>>

\* The Visiting case of the earlier solver (src/unnamed/part_000:130-143):
\* the end of the list is tested before the visit, so the removal of the
\* current vertex has a tick of its own.
case_Visiting_endfirst ==
    /\ m_state = "Visiting"
    /\ IF m_neighbour = End(m_current)
       THEN /\ m_unvisited' = ListRemove(m_unvisited, m_current)
            /\ m_state' = "Idle"
            /\ UNCHANGED <<m_table, m_neighbour>>
       ELSE /\ m_table' = visit_neighbour
            /\ m_neighbour' = m_neighbour + 1
            /\ UNCHANGED <<m_unvisited, m_state>>
    /\ UNCHANGED <<m_vertices, m_source, m_current, map_order>>

case_Visiting ==
    /\ m_state = "Visiting"
    /\ m_table' = visit_neighbour
    /\ m_neighbour' = m_neighbour + 1
    /\ IF m_neighbour + 1 = End(m_current)
       THEN /\ m_unvisited' = ListRemove(m_unvisited, m_current)
            /\ m_state' = "Idle"
       ELSE UNCHANGED <<m_unvisited, m_state>>
    /\ UNCHANGED <<m_vertices, m_source, m_current, map_order>>

next ==
    \/ case_Terminated
    \/ case_Idle
    \/ case_NextVertex
    \/ case_Visiting

Next == next

Spec == Init /\ [][Next]_vars

\* The same solver on the graphs without a vertex -1.
SpecPositiveIds == InitPositiveIds /\ [][Next]_vars

\* The solver on graphs with weights of either sign.
SpecSigned == InitSigned /\ [][Next]_vars

(***************************************************************************)
(* Solver::reset, the public member, called on a solver in any state.      *)
(* m_unvisited is not cleared: push_back appends every key to what the     *)
(* list still holds.  m_current and m_neighbour are not written.  The      *)
(* guard bounds the length of the list.                                    *)
(***************************************************************************)
reset ==
    /\ Len(m_unvisited) + Cardinality(Keys) <= MaxUnvisited
    /\ m_state' = "Idle"
    /\ m_unvisited' = m_unvisited \o map_order
    /\ m_table' = ResetTable
    /\ UNCHANGED <<m_vertices, m_source, m_current, m_neighbour, map_order>>

\* A client that calls next() and reset() in any order.
NextOrReset ==
    \/ next
    \/ reset

SpecReset == InitPositiveIds /\ [][NextOrReset]_vars

(***************************************************************************)
(* The first solver of src/unnamed/part_000 (class Solver, lines 37-224)   *)
(* and the graph of its main.  It keeps distances only: m_table stands     *)
(* for its member m_distances, a map from VertexId to int, and m_source    *)
(* for the constructor argument source.  Its Visiting case tests the       *)
(* cursor for end() before it visits, and after removing the current       *)
(* vertex it calls next() again, so the Idle case runs in the same call.   *)
(***************************************************************************)
\* std::unordered_map<VertexId, Vertex> m_vertices of main.
ScenarioGraph ==
    LET E(o, w) == [m_other_id |-> o, m_weight |-> w]
    IN  [id \in 1..5 |->
            [m_id |-> id,
             m_neighbours |->
                 CASE id = 1 -> <<E(2, 5), E(5, 2), E(3, 1)>>
                   [] id = 2 -> <<E(1, 5), E(3, 2), E(4, 1)>>
                   [] id = 3 -> <<E(2, 2), E(4, 2), E(1, 1)>>
                   [] id = 4 -> <<E(3, 2), E(5, 1), E(2, 1)>>
                   [] id = 5 -> <<E(1, 2), E(4, 1)>>]]

\* Solver solver(m_vertices, 1): the constructor fills m_unvisited and
\* m_distances in the iteration order of the map.
InitScenario ==
    /\ m_vertices = ScenarioGraph
    /\ m_source = 1
    /\ map_order \in IterationOrders(DOMAIN ScenarioGraph)
    /\ m_unvisited = map_order
    /\ m_table = [key \in DOMAIN ScenarioGraph |->
                     IF key = m_source THEN 0 ELSE m_inf]
    /\ m_current \in Ids
    /\ m_neighbour = 0
    /\ m_state = "Idle"

\* next_unvisited on the list it is called with.
distances_next_unvisited(list) ==
    LET i == CHOOSE i \in 1..Len(list) :
                /\ \A j \in 1..Len(list) : m_table[list[j]] >= m_table[list[i]]
                /\ \A j \in 1..(i - 1) : m_table[list[j]] > m_table[list[i]]
    IN  list[i]

\* visit_neighbour that stores the weight of the edge alone.
distances_visit_neighbour_edgeonly ==
    LET v     == m_vertices[m_current].m_neighbours[m_neighbour]
        other == v.m_other_id
    IN  IF other \notin Range(m_unvisited) THEN m_table
        ELSE IF v.m_weight < m_table[other]
             THEN [m_table EXCEPT ![other] = v.m_weight]
             ELSE m_table

distances_visit_neighbour ==
    LET current      == m_vertices[m_current]
        current_dist == m_table[current.m_id]
        v            == current.m_neighbours[m_neighbour]
        other        == v.m_other_id
        is_unvisited == other \in Range(m_unvisited)
        dist         == current_dist + v.m_weight
    IN  IF ~is_unvisited THEN m_table
        ELSE IF dist < m_table[other]
             THEN [m_table EXCEPT ![other] = dist]
             ELSE m_table

distances_case_Terminated ==
    /\ m_state = "Terminated"
    /\ UNCHANGED vars

distances_case_Idle ==
    /\ m_state = "Idle"
    /\ IF m_unvisited = <<>>
       THEN /\ m_state' = "Terminated"
            /\ UNCHANGED m_current
       ELSE /\ m_current' = distances_next_unvisited(m_unvisited)
            /\ m_state' = "NextVertex"
    /\ UNCHANGED <<m_vertices, m_source, m_unvisited, m_table, m_neighbour,
                   map_order>>

distances_case_NextVertex ==
    /\ m_state = "NextVertex"
    /\ m_neighbour' = 1
    /\ m_state' = "Visiting"
    /\ UNCHANGED <<m_vertices, m_source, m_unvisited, m_table, m_current,
                   map_order>>

distances_case_Visiting ==
    /\ m_state = "Visiting"
    /\ IF m_neighbour = End(m_current)
       THEN LET rest == ListRemove(m_unvisited, m_current)
            IN  /\ m_unvisited' = rest
                \* m_state = State::Idle; next();
                /\ IF rest = <<>>
                   THEN /\ m_state' = "Terminated"
                        /\ UNCHANGED m_current
                   ELSE /\ m_current' = distances_next_unvisited(rest)
                        /\ m_state' = "NextVertex"
                /\ UNCHANGED <<m_table, m_neighbour>>
       ELSE /\ m_table' = distances_visit_neighbour
            /\ m_neighbour' = m_neighbour + 1
            /\ UNCHANGED <<m_unvisited, m_current, m_state>>
    /\ UNCHANGED <<m_vertices, m_source, map_order>>

distances_next ==
    \/ distances_case_Terminated
    \/ distances_case_Idle
    \/ distances_case_NextVertex
    \/ distances_case_Visiting

SpecScenario == InitScenario /\ [][distances_next]_vars

\* The solver on graphs that nothing has validated.
SpecUnvalidated == InitUnvalidated /\ [][Next]_vars

(***************************************************************************)
(* The second solver of src/unnamed/part_000 (class Solver, lines          *)
(* 296-438).  Constructor, reset, next_unvisited and visit_neighbour are   *)
(* those of src/main.cc; next() differs: the NextVertex case always goes   *)
(* on to Visiting, and the Visiting case visits and advances the cursor    *)
(* before it tests it, removes the current vertex when the cursor has      *)
(* reached end() and then calls next() again, so that the Idle case runs   *)
(* in the same call.                                                       *)
(*                                                                         *)
(* For a vertex without neighbours cbegin() = end(), and the Visiting case *)
(* dereferences and increments that iterator, which is undefined: the      *)
(* read may yield any Edge, after which the cursor is past end() and never *)
(* compares equal to it, or the process may end there (a behaviour that    *)
(* takes no further step).                                                 *)
(***************************************************************************)
\* What *m_neighbour may yield when the cursor is not on an element.
IndeterminateEdges == [m_other_id : Ids, m_weight : SignedWeights]

\* What *m_neighbour yields.
CursorReads ==
    IF m_neighbour \in 1..Len(Neighbours(m_current))
    THEN {Neighbours(m_current)[m_neighbour]}
    ELSE IndeterminateEdges

\* next_unvisited as called by the nested next(): on the list and the table
\* that the enclosing call has produced.
visitfirst_next_unvisited(list, table) ==
    LET i == CHOOSE i \in 1..Len(list) :
                /\ \A j \in 1..Len(list) :
                      table[list[j]].m_dist >= table[list[i]].m_dist
                /\ \A j \in 1..(i - 1) :
                      table[list[j]].m_dist > table[list[i]].m_dist
    IN  list[i]

\* visit_neighbour, v being the value read through the cursor.
visitfirst_visit_neighbour(v) ==
    LET current      == m_vertices[m_current]
        current_dist == m_table[current.m_id].m_dist
        other        == v.m_other_id
        is_unvisited == other \in Range(m_unvisited)
        dist         == current_dist + v.m_weight
    IN  IF ~is_unvisited THEN m_table
        ELSE IF dist < m_table[other].m_dist
             THEN [m_table EXCEPT ![other] =
                      [m_dist |-> dist, m_prev |-> current.m_id]]
             ELSE m_table

visitfirst_case_Terminated ==
    /\ m_state = "Terminated"
    /\ UNCHANGED vars

visitfirst_case_Idle ==
    /\ m_state = "Idle"
    /\ IF m_unvisited = <<>>
       THEN /\ m_state' = "Terminated"
            /\ UNCHANGED m_current
       ELSE /\ m_current' = visitfirst_next_unvisited(m_unvisited, m_table)
            /\ m_state' = "NextVertex"
    /\ UNCHANGED <<m_vertices, m_source, m_unvisited, m_table, m_neighbour,
                   map_order>>

visitfirst_case_NextVertex ==
    /\ m_state = "NextVertex"
    /\ m_neighbour' = 1
    /\ m_state' = "Visiting"
    /\ UNCHANGED <<m_vertices, m_source, m_unvisited, m_table, m_current,
                   map_order>>

visitfirst_case_Visiting ==
    /\ m_state = "Visiting"
    /\ m_neighbour < End(m_current) + MaxOverrun
    /\ \E v \in CursorReads : m_table' = visitfirst_visit_neighbour(v)
    /\ m_neighbour' = m_neighbour + 1
    /\ IF m_neighbour + 1 = End(m_current)
       THEN LET rest == ListRemove(m_unvisited, m_current)
            IN  /\ m_unvisited' = rest
                \* m_state = State::Idle; next();
                /\ IF rest = <<>>
                   THEN /\ m_state' = "Terminated"
                        /\ UNCHANGED m_current
                   ELSE /\ m_current' = visitfirst_next_unvisited(rest, m_table')
                        /\ m_state' = "NextVertex"
       ELSE UNCHANGED <<m_unvisited, m_current, m_state>>
    /\ UNCHANGED <<m_vertices, m_source, map_order>>

visitfirst_next ==
    \/ visitfirst_case_Terminated
    \/ visitfirst_case_Idle
    \/ visitfirst_case_NextVertex
    \/ visitfirst_case_Visiting

SpecVisitFirst == InitPositiveIds /\ [][visitfirst_next]_vars

\* A solver whose next() goes on being called: the main loop calls it on
\* every press of the key, for as long as the window is open.
SpecCalled == InitPositiveIds /\ [][Next]_vars /\ WF_vars(Next)

TypeOK ==
    /\ m_state \in States
    /\ Range(m_unvisited) \subseteq Keys
    /\ DOMAIN m_table = Keys

(***************************************************************************)
(* Solver::get_optimal_path(dest), a const member function.                *)
(*     prev = dest;                                                        *)
(*     while (prev != m_source) {                                          *)
(*         prev = m_table.at(prev).m_prev;   path.push_back(prev);  }      *)
(*     reverse(path); return path;                                         *)
(* m_table.at throws std::out_of_range for a key the table does not have.  *)
(* The loop is deterministic on a fixed table, so when prev takes a value  *)
(* it has had before, the loop never ends (path grows until memory is      *)
(* exhausted).  The result is one of                                       *)
(*   [kind |-> "returns", path |-> the vector returned]                    *)
(*   [kind |-> "out_of_range", path |-> <<>>]                              *)
(*   [kind |-> "never_returns", path |-> <<>>].                            *)
(***************************************************************************)
Reverse(s) == [i \in 1..Len(s) |-> s[Len(s) + 1 - i]]

RECURSIVE path_loop(_, _, _)
path_loop(prev, path, seen) ==
    IF prev = m_source THEN [kind |-> "returns", path |-> Reverse(path)]
    ELSE IF prev \notin DOMAIN m_table
         THEN [kind |-> "out_of_range", path |-> <<>>]
    ELSE IF prev \in seen
         THEN [kind |-> "never_returns", path |-> <<>>]
    ELSE path_loop(m_table[prev].m_prev,
                   Append(path, m_table[prev].m_prev),
                   seen \cup {prev})

\* get_optimal_path with path.push_back(dest) before the loop.
get_optimal_path_destfirst(dest) == path_loop(dest, <<dest>>, {})

get_optimal_path(dest) == path_loop(dest, <<>>, {})

\* Solver::is_done
is_done == m_state = "Terminated"

(***************************************************************************)
(* Reference notions the claims are stated against; none of them is used   *)
(* by the actions.                                                         *)
(***************************************************************************)
\* The weights of the walks from m_source to v that have at most n edges.
RECURSIVE WalkSums(_, _)
WalkSums(v, n) ==
    IF n = 0 THEN (IF v = m_source THEN {0} ELSE {})
    ELSE WalkSums(v, n - 1) \cup
         UNION { UNION { { d + Neighbours(u)[i].m_weight : d \in WalkSums(u, n - 1) }
                         : i \in { j \in 1..Len(Neighbours(u)) :
                                      Neighbours(u)[j].m_other_id = v } }
                 : u \in Keys }

\* With non-negative weights a shortest walk repeats no vertex.
PathSums(v) == WalkSums(v, Cardinality(Keys) - 1)

Reachable(v) == PathSums(v) # {}

SetMin(S) == CHOOSE x \in S : \A y \in S : x <= y

\* The true shortest-path weight from m_source to a reachable v.
ShortestDistance(v) == SetMin(PathSums(v))

\* The sums of edge weights along the vertex sequence p, one edge chosen
\* between each two consecutive vertices; empty when some edge is missing.
RECURSIVE WeightsAlong(_)
WeightsAlong(p) ==
    IF Len(p) <= 1 THEN {0}
    ELSE LET u == p[1]
             v == p[2]
             ws == IF u \in Keys
                   THEN { Neighbours(u)[i].m_weight :
                            i \in { j \in 1..Len(Neighbours(u)) :
                                       Neighbours(u)[j].m_other_id = v } }
                   ELSE {}
         IN  { w + r : w \in ws, r \in WeightsAlong(Tail(p)) }

\* The predecessor chain of dest as section 4.4 describes the result: from
\* the source (excluded) to dest (included).  Defined for a dest whose
\* m_prev links lead to the source within steps links.
RECURSIVE ChainTo(_, _)
ChainTo(dest, steps) ==
    IF dest = m_source \/ steps = 0 \/ dest \notin DOMAIN m_table THEN <<>>
    ELSE Append(ChainTo(m_table[dest].m_prev, steps - 1), dest)

(***************************************************************************)
(* C1.  Once the solver is Terminated, every vertex reachable from the     *)
(* source has its true shortest-path weight recorded, and every            *)
(* unreachable vertex has the sentinel m_inf recorded.                     *)
(***************************************************************************)
C1_TerminalDistancesAreShortest ==
    is_done =>
        \A v \in Keys :
            /\ Reachable(v) => m_table[v].m_dist = ShortestDistance(v)
            /\ ~Reachable(v) => m_table[v].m_dist = m_inf

(***************************************************************************)
(* C2.  After termination, get_optimal_path(dest) of a reachable dest      *)
(* returns the predecessor chain in source-to-destination order, without   *)
(* the source and with the destination.                                    *)
(***************************************************************************)
C2_PathExcludesSourceIncludesDest ==
    is_done =>
        \A dest \in Keys :
            Reachable(dest) =>
                /\ get_optimal_path(dest).kind = "returns"
                /\ get_optimal_path(dest).path = ChainTo(dest, Cardinality(Keys))

(***************************************************************************)
(* C3.  After termination, get_optimal_path(dest) of a graph vertex that   *)
(* is unreachable from the source fails with an error: it does not loop    *)
(* and it returns no path.                                                 *)
(***************************************************************************)
C3_UnreachableFails ==
    is_done =>
        \A dest \in Keys :
            ~Reachable(dest) => get_optimal_path(dest).kind = "out_of_range"

(***************************************************************************)
(* C4.  After termination, for every reachable dest the edge weights along *)
(* the path that get_optimal_path(dest) returns sum to m_table[dest].m_dist*)
(* (the path read as the claim describes it, starting after the source, or *)
(* as it stands).                                                          *)
(***************************************************************************)
C4_PathWeightIsDistance ==
    is_done =>
        \A dest \in Keys :
            Reachable(dest) =>
                /\ get_optimal_path(dest).kind = "returns"
                /\ m_table[dest].m_dist \in
                      WeightsAlong(<<m_source>> \o get_optimal_path(dest).path)
                      \cup (IF get_optimal_path(dest).path = <<>> THEN {0}
                            ELSE WeightsAlong(get_optimal_path(dest).path))


(***************************************************************************)
(* C5.  In every reachable state get_optimal_path(m_source) returns the    *)
(* empty sequence.                                                         *)
(***************************************************************************)
C5_SourcePathEmpty ==
    get_optimal_path(m_source) = [kind |-> "returns", path |-> <<>>]

\* A state in the middle of a run, with a relaxed entry in the table, in
\* which the path of the source is asked for.
C5_Witness ==
    /\ m_state = "Visiting"
    /\ \E v \in Keys \ {m_source} :
          m_table[v].m_dist < m_inf /\ m_table[v].m_prev = m_source
    /\ get_optimal_path(m_source).path = <<>>

(***************************************************************************)
(* C6.  Every call of next() performs exactly one row of the transition    *)
(* table of section 4.3: a tick never both relaxes a neighbour and removes *)
(* the current vertex, and never passes through two engine states.         *)
(***************************************************************************)
TableUnchangedOutside(S) == \A v \in Keys \ S : m_table'[v] = m_table[v]

\* The target of the edge under the cursor.
CursorTarget == Neighbours(m_current)[m_neighbour].m_other_id

Section43Row ==
    \/ /\ m_state = "Terminated"
       /\ UNCHANGED vars
    \/ /\ m_state = "Idle" /\ m_unvisited = <<>>
       /\ m_state' = "Terminated"
       /\ UNCHANGED <<m_unvisited, m_table, m_current, m_neighbour>>
    \/ /\ m_state = "Idle" /\ m_unvisited # <<>>
       /\ m_state' = "NextVertex"
       /\ m_current' \in Range(m_unvisited)
       /\ UNCHANGED <<m_unvisited, m_table, m_neighbour>>
    \/ /\ m_state = "NextVertex"
       /\ m_state' = "Visiting"
       /\ m_neighbour' = 1
       /\ UNCHANGED <<m_unvisited, m_table, m_current>>
    \/ /\ m_state = "Visiting" /\ m_neighbour < End(m_current)
       /\ m_state' = "Visiting"
       /\ m_neighbour' = m_neighbour + 1
       /\ TableUnchangedOutside({CursorTarget})
       /\ UNCHANGED <<m_unvisited, m_current>>
    \/ /\ m_state = "Visiting" /\ m_neighbour = End(m_current)
       /\ m_state' = "Idle"
       /\ m_unvisited' = ListRemove(m_unvisited, m_current)
       /\ UNCHANGED <<m_table, m_current, m_neighbour>>

C6_OneTableRowPerTick == [][Section43Row]_vars

(***************************************************************************)
(* C6, as amended.  Every call of next() performs one row of the table,    *)
(* except that the removal of the current vertex has no tick of its own:   *)
(* the Visiting tick that relaxes the last neighbour also removes the      *)
(* current vertex and returns to Idle, and the NextVertex tick of a vertex *)
(* without neighbours removes it and returns to Idle without entering      *)
(* Visiting.  A tick relaxes at most one neighbour and removes at most one *)
(* vertex.                                                                 *)
(***************************************************************************)
FoldedRow ==
    \/ /\ m_state = "Terminated"
       /\ UNCHANGED vars
    \/ /\ m_state = "Idle" /\ m_unvisited = <<>>
       /\ m_state' = "Terminated"
       /\ UNCHANGED <<m_unvisited, m_table, m_current, m_neighbour>>
    \/ /\ m_state = "Idle" /\ m_unvisited # <<>>
       /\ m_state' = "NextVertex"
       /\ m_current' \in Range(m_unvisited)
       /\ UNCHANGED <<m_unvisited, m_table, m_neighbour>>
    \/ /\ m_state = "NextVertex" /\ Neighbours(m_current) # <<>>
       /\ m_state' = "Visiting"
       /\ m_neighbour' = 1
       /\ UNCHANGED <<m_unvisited, m_table, m_current>>
    \/ /\ m_state = "NextVertex" /\ Neighbours(m_current) = <<>>
       /\ m_state' = "Idle"
       /\ m_unvisited' = ListRemove(m_unvisited, m_current)
       /\ Len(m_unvisited') = Len(m_unvisited) - 1
       /\ UNCHANGED <<m_table, m_current>>
    \/ /\ m_state = "Visiting" /\ m_neighbour < Len(Neighbours(m_current))
       /\ m_state' = "Visiting"
       /\ m_neighbour' = m_neighbour + 1
       /\ TableUnchangedOutside({CursorTarget})
       /\ UNCHANGED <<m_unvisited, m_current>>
    \/ /\ m_state = "Visiting" /\ m_neighbour = Len(Neighbours(m_current))
       /\ m_state' = "Idle"
       /\ m_neighbour' = m_neighbour + 1
       /\ TableUnchangedOutside({CursorTarget})
       /\ m_unvisited' = ListRemove(m_unvisited, m_current)
       /\ Len(m_unvisited') = Len(m_unvisited) - 1
       /\ UNCHANGED m_current

C6_OneFoldedRowPerTick == [][FoldedRow]_vars

\* The state after a Visiting tick that relaxed the last neighbour of a
\* vertex with two neighbours and removed that vertex: only that tick can
\* have written the entry of the last neighbour.
C6_Witness ==
    /\ m_state = "Idle"
    /\ m_current \in Keys
    /\ m_current \notin Range(m_unvisited)
    /\ Len(Neighbours(m_current)) = 2
    /\ m_neighbour = 3
    /\ Neighbours(m_current)[1].m_other_id # Neighbours(m_current)[2].m_other_id
    /\ m_table[Neighbours(m_current)[2].m_other_id].m_prev = m_current
    /\ m_table[Neighbours(m_current)[2].m_other_id].m_dist < m_inf

(***************************************************************************)
(* C7.  Terminated is absorbing: a call of next() in state Terminated      *)
(* changes neither the state, the table, the unvisited list, the current   *)
(* vertex nor the cursor.                                                  *)
(***************************************************************************)
C7_TerminatedAbsorbing == [][is_done => UNCHANGED vars]_vars

\* Terminated, reached by a run that relaxed at least one entry.
C7_Witness ==
    /\ is_done
    /\ \E v \in Keys \ {m_source} : m_table[v].m_dist < m_inf

(***************************************************************************)
(* C8.  In every state reached by next() calls from construction, the      *)
(* unvisited list is empty if and only if the state is Terminated.         *)
(***************************************************************************)
C8_EmptyIffTerminated == (m_unvisited = <<>>) <=> is_done

(***************************************************************************)
(* C8, as amended.  The unvisited list is empty whenever the state is      *)
(* Terminated; when the unvisited list is empty, the state is Terminated   *)
(* or Idle (the Idle state that follows the removal of the last vertex and *)
(* that the next tick turns into Terminated).                              *)
(***************************************************************************)
C8_EmptyOnlyIdleOrTerminated ==
    /\ is_done => m_unvisited = <<>>
    /\ m_unvisited = <<>> => m_state \in {"Idle", "Terminated"}

\* Idle with every vertex removed, before the tick that terminates.
C8_Witness ==
    /\ m_state = "Idle"
    /\ m_unvisited = <<>>
    /\ m_neighbour >= 1
    /\ Cardinality(Keys) >= 2

(***************************************************************************)
(* C9.  Within a run the unvisited list only shrinks: the tick that closes *)
(* a cycle from Idle back to Idle removes exactly one vertex, the current  *)
(* one, every other tick leaves the list as it is, and so no vertex that   *)
(* was removed comes back.                                                 *)
(***************************************************************************)
C9_Step ==
    /\ Range(m_unvisited') \subseteq Range(m_unvisited)
    /\ IF m_state # "Idle" /\ m_state' = "Idle"
       THEN /\ m_current \in Range(m_unvisited)
            /\ Range(m_unvisited') = Range(m_unvisited) \ {m_current}
            /\ Len(m_unvisited') = Len(m_unvisited) - 1
       ELSE m_unvisited' = m_unvisited

C9_UnvisitedOnlyShrinks == [][C9_Step]_vars

\* Idle after the second removal, with a vertex still unvisited.
C9_Witness ==
    /\ m_state = "Idle"
    /\ Cardinality(Keys) = 3
    /\ Len(m_unvisited) = 1
    /\ m_current \notin Range(m_unvisited)

(***************************************************************************)
(* C10.  No tick raises the recorded distance of any vertex.               *)
(***************************************************************************)
C10_DistancesNeverIncrease ==
    [][\A v \in Keys : m_table'[v].m_dist <= m_table[v].m_dist]_vars

\* A vertex with an edge from the source (relaxed first, in the source's
\* round) whose entry was then lowered again through another vertex.
C10_Witness ==
    \E v \in Keys \ {m_source} :
        /\ \E i \in 1..Len(Neighbours(m_source)) :
              /\ Neighbours(m_source)[i].m_other_id = v
              /\ Neighbours(m_source)[i].m_weight < m_inf
        /\ m_table[v].m_prev \in Keys \ {m_source}
        /\ m_table[v].m_dist < m_inf
        /\ m_state = "Terminated"

(***************************************************************************)
(* C11.  In every reachable state the table entry of the source is         *)
(* (distance 0, predecessor -1): reset() writes it, and no relaxation      *)
(* with a non-negative weight can store a distance below 0.                *)
(***************************************************************************)
C11_SourceEntryFixed ==
    /\ m_source \in Keys
    /\ m_table[m_source] = [m_dist |-> 0, m_prev |-> NoPrev]

\* A later vertex has just relaxed an edge that leads back to the source.
C11_Witness ==
    /\ m_state \in {"Visiting", "Idle"}
    /\ m_current \in Keys \ {m_source}
    /\ m_neighbour \in 2..End(m_current)
    /\ Neighbours(m_current)[m_neighbour - 1].m_other_id = m_source
    /\ Neighbours(m_current)[m_neighbour - 1].m_weight = 0
    /\ m_table[m_current].m_dist = 0

(***************************************************************************)
(* C12.  Once a vertex is no longer in m_unvisited, no call to next()      *)
(* changes its table entry: visit_neighbour returns before the comparison  *)
(* when the target of the edge is not found in m_unvisited.  Checked on    *)
(* graphs with weights of either sign, where the comparison alone would    *)
(* let a later vertex lower the entry of an earlier one.                   *)
(***************************************************************************)
C12_Step ==
    \A v \in Keys \ Range(m_unvisited) : m_table'[v] = m_table[v]

C12_RemovedEntriesFrozen == [][C12_Step]_vars

\* The edge just visited leads to a removed vertex and would have lowered
\* its distance.
C12_Witness ==
    /\ m_state \in {"Visiting", "Idle"}
    /\ m_current \in Keys
    /\ m_neighbour \in 2..End(m_current)
    /\ LET e == Neighbours(m_current)[m_neighbour - 1]
       IN  /\ e.m_other_id \notin Range(m_unvisited)
           /\ e.m_other_id # m_current
           /\ m_table[m_current].m_dist + e.m_weight < m_table[e.m_other_id].m_dist

(***************************************************************************)
(* C13.  The state the constructor leaves: Idle, one table entry per       *)
(* vertex with distance 0 for the source and m_inf for every other vertex  *)
(* and predecessor -1 for all, and every vertex in m_unvisited once.  The  *)
(* constructed state is the one in which the cursor m_neighbour is still   *)
(* value-initialised and no vertex has been selected.                      *)
(***************************************************************************)
JustConstructed == m_neighbour = 0 /\ m_state = "Idle"

C13_ConstructionState ==
    JustConstructed =>
        /\ DOMAIN m_table = Keys
        /\ \A v \in Keys :
              /\ m_table[v].m_dist = (IF v = m_source THEN 0 ELSE m_inf)
              /\ m_table[v].m_prev = NoPrev
        /\ Range(m_unvisited) = Keys
        /\ Len(m_unvisited) = Cardinality(Keys)

\* A constructed solver over three vertices.
C13_Witness ==
    /\ JustConstructed
    /\ Cardinality(Keys) = 3
    /\ Neighbours(m_source) # <<>>

(***************************************************************************)
(* C14.  A call to reset(), in whatever state, leaves the solver as the    *)
(* constructor leaves it: Idle, the table re-initialised, and m_unvisited  *)
(* holding every vertex exactly once in the order of construction.         *)
(***************************************************************************)
C14_ResetStep ==
    reset =>
        /\ m_state' = "Idle"
        /\ m_table' = ResetTable
        /\ m_unvisited' = map_order

C14_ResetRestoresConstruction == [][C14_ResetStep]_vars

(***************************************************************************)
(* C15.  On the five-vertex graph of the main of src/unnamed/part_000,     *)
(* with source 1, the terminated solver holds the distances 0 for vertex   *)
(* 1, 1 for vertex 3, 2 for vertex 5 and 3 for vertex 4, and for vertex 2  *)
(* a distance of at most 5 that is the weight of a shortest path.          *)
(***************************************************************************)
C15_ScenarioDistances ==
    m_state = "Terminated" =>
        /\ m_table[1] = 0
        /\ m_table[3] = 1
        /\ m_table[5] = 2
        /\ m_table[4] = 3
        /\ m_table[2] <= 5
        /\ m_table[2] = ShortestDistance(2)

\* The run on the scenario graph has terminated.
C15_Witness ==
    /\ m_vertices = ScenarioGraph
    /\ m_state = "Terminated"
    /\ m_unvisited = <<>>
    /\ m_table[2] = 3

(***************************************************************************)
(* C16.  No solver exists over a graph with a dangling edge or a negative  *)
(* weight: the constructor rejects such a graph, so in every state of a    *)
(* solver every edge leads to a key of the map and has a weight >= 0.      *)
(***************************************************************************)
ValidGraph ==
    \A v \in Keys : \A i \in 1..Len(Neighbours(v)) :
        /\ Neighbours(v)[i].m_other_id \in Keys
        /\ Neighbours(v)[i].m_weight >= 0

C16_InvalidGraphRejected == ValidGraph

(***************************************************************************)
(* C17.  Looking up an identifier that is no key of the graph fails: a     *)
(* Visiting call whose cursor is on an edge to such an identifier throws   *)
(* and so leaves the solver as it was, and get_optimal_path throws for     *)
(* such a destination.                                                     *)
(***************************************************************************)
C17_Step ==
    /\ (m_state = "Visiting" /\ CursorTarget \notin Keys) => UNCHANGED vars
    /\ \A dest \in Ids \ Keys : get_optimal_path(dest).kind = "out_of_range"

C17_AbsentLookupFails == [][C17_Step]_vars

(***************************************************************************)
(* C18.  When the selected vertex has no outgoing edge, the calls to       *)
(* next() that handle it change no table entry; the NextVertex call either *)
(* removes the vertex and returns to Idle or enters Visiting, and a        *)
(* Visiting call on such a vertex reads nothing through the cursor,        *)
(* removes the vertex and leaves Visiting.                                 *)
(***************************************************************************)
C18_Step ==
    (/\ m_state \in {"NextVertex", "Visiting"}
     /\ Neighbours(m_current) = <<>>)
    => /\ m_table' = m_table
       /\ m_state = "NextVertex" =>
             \/ m_state' = "Visiting" /\ m_unvisited' = m_unvisited
             \/ m_state' = "Idle" /\ m_current \notin Range(m_unvisited')
       /\ m_state = "Visiting" =>
             /\ m_state' # "Visiting"
             /\ m_neighbour' = m_neighbour
             /\ m_current \notin Range(m_unvisited')

C18_NoNeighbourNoRead == [][C18_Step]_vars

(***************************************************************************)
(* C19.  A vertex that no path from the source reaches keeps the distance  *)
(* m_inf and the predecessor -1 in every state; it is removed from         *)
(* m_unvisited only as the selected vertex, and it has been removed when   *)
(* the run terminates; a Visiting call whose current vertex is at          *)
(* distance m_inf changes no table entry.                                  *)
(***************************************************************************)
\* The vertices that some path from a vertex of S leads to, and S itself.
RECURSIVE ReachedFrom(_)
ReachedFrom(S) ==
    LET T == S \cup UNION {Range([i \in 1..Len(Neighbours(v)) |->
                                    Neighbours(v)[i].m_other_id]) : v \in S}
    IN  IF T = S THEN S ELSE ReachedFrom(T)

C19_Step ==
    LET unreachable == Keys \ ReachedFrom({m_source})
        untouched   == [m_dist |-> m_inf, m_prev |-> NoPrev]
    IN  /\ \A v \in unreachable :
              /\ m_table[v] = untouched
              /\ m_table'[v] = untouched
              /\ (v \in Range(m_unvisited) /\ v \notin Range(m_unvisited'))
                    => v = m_current /\ m_state \in {"NextVertex", "Visiting"}
        /\ is_done' => m_unvisited' = <<>>
        /\ (m_state = "Visiting" /\ m_table[m_current].m_dist = m_inf)
              => m_table' = m_table

C19_UnreachableKeepsSentinel == [][C19_Step]_vars

\* An unreachable vertex with an edge to a vertex still unvisited has just
\* visited that edge and, being done with its neighbours, has been removed.
C19_Witness ==
    /\ m_state = "Idle"
    /\ m_current \in Keys \ ReachedFrom({m_source})
    /\ m_current \notin Range(m_unvisited)
    /\ m_neighbour = End(m_current)
    /\ m_neighbour >= 2
    /\ Neighbours(m_current)[m_neighbour - 1].m_other_id \in Range(m_unvisited)
    /\ m_table[m_current].m_dist = m_inf

(***************************************************************************)
(* C20.  Relaxing the edge under the cursor, from the current vertex c to  *)
(* an unvisited neighbour n with d = distance[c] + weight, stores the      *)
(* entry (d, c) for n when d is strictly smaller than distance[n] and      *)
(* leaves the entry as it is otherwise; an entry never changes in any      *)
(* other way, so distance and predecessor are never updated one without    *)
(* the other.                                                              *)
(***************************************************************************)
C20_Step ==
    /\ (m_state = "Visiting" /\ CursorTarget \in Range(m_unvisited)) =>
          LET n == CursorTarget
              d == m_table[m_current].m_dist
                     + Neighbours(m_current)[m_neighbour].m_weight
          IN  IF d < m_table[n].m_dist
              THEN m_table'[n] = [m_dist |-> d, m_prev |-> m_current]
              ELSE m_table'[n] = m_table[n]
    /\ \A v \in Keys :
          m_table'[v] # m_table[v] =>
              /\ m_state = "Visiting"
              /\ v = CursorTarget
              /\ m_table'[v].m_dist < m_table[v].m_dist
              /\ m_table'[v].m_prev = m_current

C20_RelaxationWritesBoth == [][C20_Step]_vars

\* A vertex other than the source has just lowered the distance of a
\* neighbour to below the weight of the edge from the source to it.
C20_Witness ==
    /\ m_state \in {"Visiting", "Idle"}
    /\ m_current \in Keys \ {m_source}
    /\ m_neighbour \in 2..End(m_current)
    /\ LET e == Neighbours(m_current)[m_neighbour - 1]
       IN  /\ e.m_other_id \in Range(m_unvisited)
           /\ m_table[e.m_other_id] =
                 [m_dist |-> m_table[m_current].m_dist + e.m_weight,
                  m_prev |-> m_current]
           /\ \E i \in 1..Len(Neighbours(m_source)) :
                 /\ Neighbours(m_source)[i].m_other_id = e.m_other_id
                 /\ Neighbours(m_source)[i].m_weight > m_table[e.m_other_id].m_dist

(***************************************************************************)
(* C21.  An Idle call with a non-empty m_unvisited selects as m_current a  *)
(* member of m_unvisited whose recorded distance is at most that of every  *)
(* member of m_unvisited.                                                  *)
(***************************************************************************)
C21_Step ==
    (m_state = "Idle" /\ m_unvisited # <<>>) =>
        /\ m_state' = "NextVertex"
        /\ m_current' \in Range(m_unvisited)
        /\ \A u \in Range(m_unvisited) :
              m_table[m_current'].m_dist <= m_table[u].m_dist

C21_SelectedIsMinimum == [][C21_Step]_vars

\* A vertex has just been selected that is not the first of the list and
\* is strictly closer than a vertex before it.
C21_Witness ==
    /\ m_state = "NextVertex"
    /\ Len(m_unvisited) >= 2
    /\ m_current \in Range(m_unvisited)
    /\ m_current # m_unvisited[1]
    /\ m_current # m_source
    /\ m_table[m_current].m_dist < m_table[m_unvisited[1]].m_dist

(***************************************************************************)
(* C22.  Selection is a function of the list and the table: of the         *)
(* members of m_unvisited at the least recorded distance (m_inf included)  *)
(* the one first in the order of the list becomes m_current, and an Idle   *)
(* call changes nothing else but m_state.  Two solvers that agree on       *)
(* graph, source and list order therefore agree on every later state.      *)
(***************************************************************************)
C22_Step ==
    (m_state = "Idle" /\ m_unvisited # <<>>) =>
        LET least    == CHOOSE d \in {m_table[u].m_dist : u \in Range(m_unvisited)} :
                            \A u \in Range(m_unvisited) : d <= m_table[u].m_dist
            minima   == {i \in 1..Len(m_unvisited) :
                            m_table[m_unvisited[i]].m_dist = least}
            first    == CHOOSE i \in minima : \A j \in minima : i <= j
        IN  /\ m_current' = m_unvisited[first]
            /\ m_state' = "NextVertex"
            /\ UNCHANGED <<m_vertices, m_source, m_unvisited, m_table,
                           m_neighbour, map_order>>

C22_FirstMinimumSelected == [][C22_Step]_vars

\* The vertex just selected is the first of several at distance m_inf.
C22_Witness ==
    /\ m_state = "NextVertex"
    /\ m_current \in Range(m_unvisited)
    /\ m_table[m_current].m_dist = m_inf
    /\ \E u \in Range(m_unvisited) \ {m_current} : m_table[u].m_dist = m_inf

(***************************************************************************)
(* C23.  m_inf exceeds every finite shortest-path weight, so at            *)
(* termination no vertex that a path from the source reaches is left at    *)
(* m_inf without a predecessor: it has the weight of a shortest path       *)
(* recorded and, unless it is the source, a predecessor.                   *)
(***************************************************************************)
C23_SentinelAboveEveryDistance ==
    is_done =>
        \A v \in ReachedFrom({m_source}) :
            /\ ShortestDistance(v) < m_inf
            /\ m_table[v].m_dist = ShortestDistance(v)
            /\ v # m_source => m_table[v].m_prev # NoPrev

(***************************************************************************)
(* C24, as the specification words it.  The members of m_unvisited and    *)
(* the keys of m_table are the same set in every state: the vertices of    *)
(* the graph less those of the rounds completed.                           *)
(***************************************************************************)
C24_UnvisitedAndTableKeysAgree ==
    /\ Range(m_unvisited) \subseteq Keys
    /\ Range(m_unvisited) = DOMAIN m_table

(***************************************************************************)
(* C24, as the code has it.  The keys of m_table are all vertices of the   *)
(* graph in every state.  m_unvisited holds every vertex once at           *)
(* construction; the call that completes the round of a vertex (the return *)
(* to Idle) removes exactly that vertex, and no other call changes the     *)
(* list, so its length is the vertex count less the rounds completed.      *)
(***************************************************************************)
NoDuplicates(list) ==
    \A i, j \in 1..Len(list) : list[i] = list[j] => i = j

C24_Step ==
    /\ DOMAIN m_table = Keys
    /\ DOMAIN m_table' = Keys
    /\ JustConstructed =>
          Range(m_unvisited) = Keys /\ Len(m_unvisited) = Cardinality(Keys)
    /\ NoDuplicates(m_unvisited')
    /\ IF m_state \in {"NextVertex", "Visiting"} /\ m_state' = "Idle"
       THEN /\ Len(m_unvisited') = Len(m_unvisited) - 1
            /\ Range(m_unvisited') = Range(m_unvisited) \ {m_current}
       ELSE m_unvisited' = m_unvisited

C24_TableKeepsAllKeys == [][C24_Step]_vars

\* Two rounds are complete: one vertex is left in the list, the table has
\* all three.
C24_Witness ==
    /\ m_state = "Idle"
    /\ Cardinality(Keys) = 3
    /\ Len(m_unvisited) = 1
    /\ DOMAIN m_table = Keys

(***************************************************************************)
(* C25.  A solver whose next() keeps being called reaches Terminated.      *)
(* The number of calls that takes is bounded: TicksLeft, at most           *)
(* 2 * (number of vertices) + (number of edges) + 1 at construction, goes  *)
(* down by one with every call made before Terminated.  In every state     *)
(* other than Terminated a call to next() changes the state.               *)
(***************************************************************************)
\* The calls the round of vertex v takes: Idle, NextVertex and one Visiting
\* call for each edge.
RoundTicks(v) == 2 + Len(Neighbours(v))

RECURSIVE SumOfRounds(_)
SumOfRounds(S) ==
    IF S = {} THEN 0
    ELSE LET v == CHOOSE x \in S : TRUE
         IN  RoundTicks(v) + SumOfRounds(S \ {v})

TicksLeft ==
    CASE m_state = "Terminated" -> 0
      [] m_state = "Idle"       -> SumOfRounds(Range(m_unvisited)) + 1
      [] m_state = "NextVertex" -> SumOfRounds(Range(m_unvisited))
      [] m_state = "Visiting"   ->
             SumOfRounds(Range(m_unvisited) \ {m_current})
                 + (End(m_current) - m_neighbour) + 1

TotalEdges == SumOfRounds(Keys) - 2 * Cardinality(Keys)

C25_Step ==
    /\ TicksLeft <= 2 * Cardinality(Keys) + TotalEdges + 1
    /\ ~is_done => TicksLeft' = TicksLeft - 1

C25_Terminates ==
    /\ <>is_done
    /\ [](~is_done => ENABLED <<Next>>_vars)
    /\ [][C25_Step]_vars

\* Terminated after the greatest number of calls a graph of three vertices
\* and three edges takes.
C25_Witness ==
    /\ is_done
    /\ Cardinality(Keys) = 3
    /\ TotalEdges = MaxEdges
    /\ \A v \in Keys : m_table[v].m_dist < m_inf

(***************************************************************************)
(* C26.  In the solver of src/main.cc, whenever m_state is Visiting the    *)
(* cursor m_neighbour is on an element of the neighbour list of m_current, *)
(* never at end(): what Renderer::draw, Renderer::draw_vertex and          *)
(* visit_neighbour dereference in that state exists.                       *)
(***************************************************************************)
C26_CursorOnEdgeWhileVisiting ==
    m_state = "Visiting" =>
        /\ m_current \in Keys
        /\ m_neighbour \in 1..Len(Neighbours(m_current))
        /\ CursorTarget \in Keys

\* Visiting with the cursor on the last edge, in a graph in which a vertex
\* without edges has already had its round.
C26_Witness ==
    /\ m_state = "Visiting"
    /\ m_neighbour = Len(Neighbours(m_current))
    /\ \E v \in Keys \ Range(m_unvisited) : Neighbours(v) = <<>>

(***************************************************************************)
(* C27.  In the second solver of src/unnamed/part_000, every Visiting call *)
(* (it runs visit_neighbour and then advances the cursor) finds the cursor *)
(* on an element of the neighbour list of m_current.                       *)
(***************************************************************************)
C27_Step ==
    (m_state = "Visiting" /\ m_neighbour' = m_neighbour + 1) =>
        m_neighbour \in 1..Len(Neighbours(m_current))

C27_VisitOnlyOnEdge == [][C27_Step]_vars

(***************************************************************************)
(* C28.  In every state the links m_prev, followed as get_optimal_path     *)
(* follows them, form no cycle: for every vertex dest the loop of          *)
(* get_optimal_path(dest) ends, at the source or by an exception;          *)
(* and every predecessor other than -1 is a vertex whose round has begun   *)
(* before (it is no longer unvisited, or it is m_current).  Graphs with a  *)
(* vertex -1 are included.                                                 *)
(***************************************************************************)
C28_PredecessorsAcyclic ==
    \A dest \in Keys :
        /\ get_optimal_path(dest).kind # "never_returns"
        /\ m_table[dest].m_prev # NoPrev =>
              /\ m_table[dest].m_prev \in Keys
              /\ \/ m_table[dest].m_prev \notin Range(m_unvisited)
                 \/ m_table[dest].m_prev = m_current

(***************************************************************************)
(* C29.  In every state and for every vertex v other than the source, the  *)
(* predecessor of v is -1 exactly when the distance of v is m_inf, and a   *)
(* predecessor p other than -1 is a vertex with an edge to v whose weight  *)
(* added to the distance of p gives the distance of v.                     *)
(***************************************************************************)
C29_PredecessorExplainsDistance ==
    \A v \in Keys \ {m_source} :
        /\ (m_table[v].m_prev = NoPrev) <=> (m_table[v].m_dist = m_inf)
        /\ m_table[v].m_prev # NoPrev =>
              /\ m_table[v].m_prev \in Keys
              /\ \E i \in 1..Len(Neighbours(m_table[v].m_prev)) :
                    LET e == Neighbours(m_table[v].m_prev)[i]
                    IN  /\ e.m_other_id = v
                        /\ m_table[v].m_dist =
                              m_table[m_table[v].m_prev].m_dist + e.m_weight

(***************************************************************************)
(* C30.  The vertex an Idle call selects has a recorded distance that is   *)
(* at least that of every vertex already removed from m_unvisited: the     *)
(* distances of the selected vertices never decrease from one selection    *)
(* to the next.                                                            *)
(***************************************************************************)
C30_Step ==
    (m_state = "Idle" /\ m_unvisited # <<>>) =>
        \A r \in Keys \ Range(m_unvisited) :
            m_table[m_current'].m_dist >= m_table[r].m_dist

C30_SelectedDistancesNonDecreasing == [][C30_Step]_vars

\* The third vertex has been selected, at a finite distance greater than
\* that of a vertex removed before it.
C30_Witness ==
    /\ m_state = "NextVertex"
    /\ Cardinality(Keys) = 3
    /\ Len(m_unvisited) = 1
    /\ m_current \in Range(m_unvisited)
    /\ m_table[m_current].m_dist < m_inf
    /\ \E r \in Keys \ (Range(m_unvisited) \cup {m_source}) :
          /\ m_table[r].m_dist > 0
          /\ m_table[r].m_dist < m_table[m_current].m_dist

=============================================================================
